---- MODULE Spec2Model ----
(***************************************************************************)
(* Model of interview/weather.py: process_events, the generator that folds *)
(* a sequence of weather samples and control messages into per-station     *)
(* high/low extrema and yields snapshot / reset messages.                  *)
(*                                                                         *)
(* One action models one iteration of the `for event in events` loop, one  *)
(* action per branch of the dispatch.  Python values that may be None are  *)
(* carried as options: None is <<>> and a value v is <<v>>.  An event is a *)
(* dict: a function whose domain is the set of keys the dict has.          *)
(*                                                                         *)
(* weather_data gives the contents of the dict by value.  The station      *)
(* entries are mutable dict objects: entryId names the object stored under *)
(* each station and heap holds the contents of every object created, so    *)
(* that a reference kept to an entry can be told from a copy of it.        *)
(*                                                                         *)
(* process_events is a generator: its body runs only inside next().        *)
(* control tells who runs, the consumer or the generator; Pull is the      *)
(* consumer calling next(), and a yield, a raise or the end of the input   *)
(* gives control back.  Defer is the consumer doing something else first.  *)
(*                                                                         *)
(* gen2 is a second call of process_events, over an input of its own, with *)
(* its own locals; SpecTwo interleaves the two generators event by event.  *)
(*                                                                         *)
(* A temperature is any value but None (line 32), so the floats inf, -inf  *)
(* and nan are temperatures too.  Spec draws finite temperatures; SpecExt  *)
(* draws valid samples whose temperature may also be inf, -inf or nan,     *)
(* with comparisons against nan false as on floats.                        *)
(***************************************************************************)
EXTENDS Integers, Sequences, FiniteSets

VARIABLES weather_data, latest_timestamp, output, yieldedAt, consumed, status, error,
          heap, entryId, control, deferrals, gen2

vars == <<weather_data, latest_timestamp, output, yieldedAt, consumed, status, error,
         heap, entryId, control, deferrals, gen2>>

(* ------------------------ bound and input values ---------------------- *)

\* length of the input sequence
MaxEvents == 4

\* how often in a row the consumer puts off asking for the next record
MaxDefer == 1

Stations == {"A", "B"}

\* an earlier and a later timestamp, 0 among them
Timestamps == {0, 1}

\* a lower and a higher temperature, below and at zero
Temperatures == {-1, 0}

\* the one timestamp of the samples of SpecExt
ExtTimestamps == {0}

(* --------------------------- Python values ----------------------------- *)

None == <<>>

Some(v) == <<v>>

Val(x) == x[1]

\* float('inf') and float('-inf'): above and below every finite temperature.
\* The number 99 stands for the float inf and -99 for the float -inf, as the
\* defaults of an entry (line 19) and as temperatures of a sample (line 29).
PosInf == 99

NegInf == -99

\* float('nan') as the temperature of a sample (line 29 takes any value but
\* None): the number 100 stands for the float nan
NaN == 100

\* lines 41, 43: a > b and a < b on floats; every comparison with nan is false
Gt(a, b) == a # NaN /\ b # NaN /\ a > b

Lt(a, b) == a # NaN /\ b # NaN /\ a < b

\* the temperatures line 32 lets through: finite ones, inf, -inf and nan
ExtTemperatures == Temperatures \cup {PosInf, NegInf, NaN}

\* dict.get(key): the value under the key, None when the key is missing.
Get(event, key) == IF key \in DOMAIN event THEN event[key] ELSE None

(* ------------------------------ inputs --------------------------------- *)

\* Marks a key that the dict does not have (not a Python value).
Absent == <<"", "">>

Opt(S) == {Some(v) : v \in S} \cup {None, Absent}

MkEvent(ty, s, t, temp, cmd) ==
    LET f == [k \in {"type", "stationName", "timestamp", "temperature", "command"} |->
                CASE k = "type" -> ty
                  [] k = "stationName" -> s
                  [] k = "timestamp" -> t
                  [] k = "temperature" -> temp
                  [] k = "command" -> cmd]
        D == {k \in DOMAIN f : f[k] # Absent}
    IN [k \in D |-> f[k]]

SampleEvents ==
    {MkEvent(Some("sample"), s, t, temp, Absent) :
        s \in Opt(Stations), t \in Opt(Timestamps), temp \in Opt(Temperatures)}

ControlEvents ==
    {MkEvent(Some("control"), Absent, Absent, Absent, cmd) :
        cmd \in Opt({"snapshot", "reset", "unknown_command"})}

OtherEvents ==
    {MkEvent(ty, Absent, Absent, Absent, Absent) : ty \in {Some("unknown"), None, Absent}}

Events == SampleEvents \cup ControlEvents \cup OtherEvents

(* ------------------------- steps of the code --------------------------- *)

IsSample(event) == Get(event, "type") = Some("sample")

IsControl(event) == Get(event, "type") = Some("control")

\* line 32: station_name is None or timestamp is None or temperature is None
MissingFields(event) ==
    \/ Get(event, "stationName") = None
    \/ Get(event, "timestamp") = None
    \/ Get(event, "temperature") = None

\* lines 36-37 (mutant: the most recent arrival wins)
NewLatestLastWins(latest, timestamp) == Some(timestamp)

\* lines 36-37: latest_timestamp after a sample with this timestamp
NewLatest(latest, timestamp) ==
    IF latest = None \/ timestamp > Val(latest) THEN Some(timestamp) ELSE latest

\* line 19: the default factory of the defaultdict
DefaultEntry == [high |-> NegInf, low |-> PosInf]

\* line 40: weather_data[station_name], created by the factory when missing
Lookup(data, station) ==
    IF station \in DOMAIN data THEN data[station] ELSE DefaultEntry

\* lines 41-44 (mutant: `elif` instead of the second `if`)
UpdateEntryElif(entry, temperature) ==
    IF Gt(temperature, entry.high) THEN [entry EXCEPT !.high = temperature]
    ELSE IF Lt(temperature, entry.low) THEN [entry EXCEPT !.low = temperature]
    ELSE entry

\* lines 41-44: the station entry after a sample with this temperature
UpdateEntry(entry, temperature) ==
    [high |-> IF Gt(temperature, entry.high) THEN temperature ELSE entry.high,
     low  |-> IF Lt(temperature, entry.low) THEN temperature ELSE entry.low]

\* lines 40-44: the dict after the sample
Record(data, station, temperature) ==
    [s \in DOMAIN data \cup {station} |->
        IF s = station THEN UpdateEntry(Lookup(data, station), temperature) ELSE data[s]]

\* lines 62-65 (mutant: the snapshot stores the entry object itself)
EntryAlias(data, s) == [ref |-> entryId[s]]

\* lines 62-65: a new dict with the two numbers of the entry
EntryCopy(data, s) == [high |-> data[s].high, low |-> data[s].low]

\* lines 60-65: the stations dict of a snapshot, sentinel entries left out
SnapshotStations(data) ==
    LET keep == {s \in DOMAIN data : data[s].high # NegInf /\ data[s].low # PosInf}
    IN [s \in keep |-> EntryCopy(data, s)]

\* what the holder of a yielded record reads in it: a number stored in the
\* record, or the present contents of an object the record refers to
Visible(rec, objects) ==
    IF rec.type = "snapshot"
      THEN [rec EXCEPT !.stations =
              [s \in DOMAIN rec.stations |->
                  IF "ref" \in DOMAIN rec.stations[s]
                    THEN objects[rec.stations[s].ref]
                    ELSE rec.stations[s]]]
      ELSE rec

\* a dict with one key set
Store(f, key, value) == [x \in DOMAIN f \cup {key} |-> IF x = key THEN value ELSE f[x]]

\* lines 52 and 68: whether a snapshot command yields
SnapshotYields(latest, data) ==
    /\ latest # None
    /\ DOMAIN data # {}
    /\ DOMAIN SnapshotStations(data) # {}

\* lines 53-57
SnapshotMsg(latest, data) ==
    [type |-> "snapshot", asOf |-> Val(latest), stations |-> SnapshotStations(data)]

\* line 73 (mutant: reset forgets to clear)
ClearedKeep(data) == data

\* line 73: weather_data.clear()
Cleared(data) == [s \in {} |-> DefaultEntry]

\* line 74 (mutant: reset only reports when there was something to clear)
ResetYieldsIfData(latest, data) == latest # None /\ DOMAIN data # {}

\* line 74: whether a reset command yields
ResetYields(latest, data) == latest # None

\* lines 75-78 (mutant: the reset message carries the snapshot tag)
ResetMsgAsSnapshot(latest) ==
    [type |-> "snapshot", asOf |-> Val(latest), stations |-> [s \in {} |-> DefaultEntry]]

\* lines 75-78
ResetMsg(latest) == [type |-> "reset", asOf |-> Val(latest)]

(* ------------------------------ state ---------------------------------- *)

\* line 20 (mutant: the cursor starts at 0 instead of None)
InitialTimestampZero == Some(0)

\* line 20: latest_timestamp = None
InitialTimestamp == None

\* lines 18-20: the locals process_events starts from
StartState ==
    [weather_data |-> [s \in {} |-> DefaultEntry], latest_timestamp |-> InitialTimestamp,
     output |-> <<>>, status |-> "running", error |-> ""]

\* line 22: the loop is iterating: the consumer is inside next(), there was
\* no exception and the input is not exhausted (MaxEvents bounds the events
\* read by both generators together)
Running ==
    /\ status = "running"
    /\ control = "generator"
    /\ Len(consumed) + Len(gen2.consumed) < MaxEvents

Init ==
    /\ weather_data = [s \in {} |-> DefaultEntry]
    /\ latest_timestamp = InitialTimestamp
    /\ output = <<>>
    /\ yieldedAt = <<>>
    /\ consumed = <<>>
    /\ status = "running"
    /\ error = ""
    /\ heap = [i \in {} |-> DefaultEntry]
    /\ entryId = [s \in {} |-> 0]
    /\ control = "consumer"
    /\ deferrals = 0
    /\ gen2 = [state |-> StartState, consumed |-> <<>>]

\* line 40: the entry object of the station, made by the factory at this
\* event when the station has none, then updated in place (lines 41-44)
Allocate(station) ==
    LET id == IF station \in DOMAIN entryId THEN entryId[station] ELSE Len(consumed) + 1
    IN  /\ entryId' = Store(entryId, station, id)
        /\ heap' = Store(heap, id, weather_data'[station])

\* line 73: clear() drops the entry objects from the dict, it changes none
Drop ==
    /\ entryId' = [s \in {} |-> 0]
    /\ UNCHANGED heap

\* lines 69, 75 (mutant: the record is buffered and the loop goes on reading)
YieldBuffered(msg) ==
    /\ output' = Append(output, msg)
    /\ yieldedAt' = Append(yieldedAt, Len(consumed) + 1)
    /\ UNCHANGED control

\* yield: the generator is suspended at the current event and next() returns
\* the message to the consumer
Yield(msg) ==
    /\ output' = Append(output, msg)
    /\ yieldedAt' = Append(yieldedAt, Len(consumed) + 1)
    /\ control' = "consumer"

\* the iteration ends without a yield and the loop goes on
NoYield == UNCHANGED <<output, yieldedAt, control>>

\* raise ValueError(msg): the generator ends, the rest of events is not read,
\* and the exception comes out of next()
Raise(msg) ==
    /\ status' = "raised"
    /\ error' = msg
    /\ control' = "consumer"
    /\ UNCHANGED <<output, yieldedAt>>

\* lines 25-44: a sample with all three fields
Sample(event) ==
    /\ Running
    /\ IsSample(event)
    /\ ~MissingFields(event)
    /\ consumed' = Append(consumed, event)
    /\ latest_timestamp' = NewLatest(latest_timestamp, Val(Get(event, "timestamp")))
    /\ weather_data' = Record(weather_data, Val(Get(event, "stationName")),
                               Val(Get(event, "temperature")))
    /\ NoYield
    /\ UNCHANGED <<status, error>>
    /\ Allocate(Val(Get(event, "stationName")))
    /\ UNCHANGED deferrals
    /\ UNCHANGED gen2

\* lines 25-37 (mutant: the cursor is advanced before the fields are validated)
SampleInvalidLate(event) ==
    /\ Running
    /\ IsSample(event)
    /\ MissingFields(event)
    /\ consumed' = Append(consumed, event)
    /\ latest_timestamp' =
           IF Get(event, "timestamp") # None
             THEN NewLatest(latest_timestamp, Val(Get(event, "timestamp")))
             ELSE latest_timestamp
    /\ Raise("Please verify input. Weather sample missing required fields.")
    /\ UNCHANGED weather_data
    /\ UNCHANGED <<heap, entryId>>
    /\ UNCHANGED deferrals
    /\ UNCHANGED gen2

\* lines 25-33: a sample that lacks a field
SampleInvalid(event) ==
    /\ Running
    /\ IsSample(event)
    /\ MissingFields(event)
    /\ consumed' = Append(consumed, event)
    /\ Raise("Please verify input. Weather sample missing required fields.")
    /\ UNCHANGED <<weather_data, latest_timestamp>>
    /\ UNCHANGED <<heap, entryId>>
    /\ UNCHANGED deferrals
    /\ UNCHANGED gen2

\* lines 46-69 (mutant: the snapshot also starts a new period)
SnapshotAndClear(event) ==
    /\ Running
    /\ IsControl(event)
    /\ Get(event, "command") = Some("snapshot")
    /\ consumed' = Append(consumed, event)
    /\ IF SnapshotYields(latest_timestamp, weather_data)
         THEN Yield(SnapshotMsg(latest_timestamp, weather_data))
         ELSE NoYield
    /\ weather_data' = Cleared(weather_data)
    /\ UNCHANGED <<latest_timestamp, status, error>>
    /\ Drop
    /\ UNCHANGED deferrals
    /\ UNCHANGED gen2

\* lines 46-69: control / snapshot
Snapshot(event) ==
    /\ Running
    /\ IsControl(event)
    /\ Get(event, "command") = Some("snapshot")
    /\ consumed' = Append(consumed, event)
    /\ IF SnapshotYields(latest_timestamp, weather_data)
         THEN Yield(SnapshotMsg(latest_timestamp, weather_data))
         ELSE NoYield
    /\ UNCHANGED <<weather_data, latest_timestamp, status, error>>
    /\ UNCHANGED <<heap, entryId>>
    /\ UNCHANGED deferrals
    /\ UNCHANGED gen2

\* lines 71-78 (mutant: reset also forgets the latest timestamp)
ResetClearsCursor(event) ==
    /\ Running
    /\ IsControl(event)
    /\ Get(event, "command") = Some("reset")
    /\ consumed' = Append(consumed, event)
    /\ weather_data' = Cleared(weather_data)
    /\ IF ResetYields(latest_timestamp, weather_data)
         THEN Yield(ResetMsg(latest_timestamp))
         ELSE NoYield
    /\ latest_timestamp' = None
    /\ UNCHANGED <<status, error>>
    /\ Drop
    /\ UNCHANGED deferrals
    /\ UNCHANGED gen2

\* lines 71-78: control / reset
Reset(event) ==
    /\ Running
    /\ IsControl(event)
    /\ Get(event, "command") = Some("reset")
    /\ consumed' = Append(consumed, event)
    /\ weather_data' = Cleared(weather_data)
    /\ IF ResetYields(latest_timestamp, weather_data)
         THEN Yield(ResetMsg(latest_timestamp))
         ELSE NoYield
    /\ UNCHANGED <<latest_timestamp, status, error>>
    /\ Drop
    /\ UNCHANGED deferrals
    /\ UNCHANGED gen2

\* lines 80-82 (mutant: an unknown command is skipped)
UnknownCommandIgnored(event) ==
    /\ Running
    /\ IsControl(event)
    /\ Get(event, "command") \notin {Some("snapshot"), Some("reset")}
    /\ consumed' = Append(consumed, event)
    /\ NoYield
    /\ UNCHANGED <<weather_data, latest_timestamp, status, error>>
    /\ UNCHANGED <<heap, entryId>>
    /\ UNCHANGED deferrals
    /\ UNCHANGED gen2

\* lines 80-82: control with any other command
UnknownCommand(event) ==
    /\ Running
    /\ IsControl(event)
    /\ Get(event, "command") \notin {Some("snapshot"), Some("reset")}
    /\ consumed' = Append(consumed, event)
    /\ Raise("Please verify input. Unknown control command.")
    /\ UNCHANGED <<weather_data, latest_timestamp>>
    /\ UNCHANGED <<heap, entryId>>
    /\ UNCHANGED deferrals
    /\ UNCHANGED gen2

\* lines 84-86 (mutant: an unknown type is skipped and the loop goes on)
UnknownTypeSkipped(event) ==
    /\ Running
    /\ ~IsSample(event)
    /\ ~IsControl(event)
    /\ consumed' = Append(consumed, event)
    /\ NoYield
    /\ UNCHANGED <<weather_data, latest_timestamp, status, error>>
    /\ UNCHANGED <<heap, entryId>>
    /\ UNCHANGED deferrals
    /\ UNCHANGED gen2

\* lines 84-86: any other type
UnknownType(event) ==
    /\ Running
    /\ ~IsSample(event)
    /\ ~IsControl(event)
    /\ consumed' = Append(consumed, event)
    /\ Raise("Please verify input. Unknown message type.")
    /\ UNCHANGED <<weather_data, latest_timestamp>>
    /\ UNCHANGED <<heap, entryId>>
    /\ UNCHANGED deferrals
    /\ UNCHANGED gen2

\* line 22: events is exhausted, the generator returns
Exhausted ==
    /\ status = "running"
    /\ control = "generator"
    /\ status' = "done"
    /\ control' = "consumer"
    /\ UNCHANGED <<weather_data, latest_timestamp, output, yieldedAt, consumed, error>>
    /\ UNCHANGED <<heap, entryId>>
    /\ UNCHANGED deferrals
    /\ UNCHANGED gen2

\* the consumer calls next(): the generator starts or resumes after its yield
Pull ==
    /\ control = "consumer"
    /\ status = "running"
    /\ control' = "generator"
    /\ deferrals' = 0
    /\ UNCHANGED <<weather_data, latest_timestamp, output, yieldedAt, consumed, status, error,
                   heap, entryId>>
    /\ UNCHANGED gen2

\* the consumer does something else and leaves the generator suspended
Defer ==
    /\ control = "consumer"
    /\ status = "running"
    /\ deferrals < MaxDefer
    /\ deferrals' = deferrals + 1
    /\ UNCHANGED <<weather_data, latest_timestamp, output, yieldedAt, consumed, status, error,
                   heap, entryId, control>>
    /\ UNCHANGED gen2

Next ==
    \/ \E event \in Events : Sample(event)
    \/ \E event \in Events : SampleInvalid(event)
    \/ \E event \in Events : Snapshot(event)
    \/ \E event \in Events : Reset(event)
    \/ \E event \in Events : UnknownCommand(event)
    \/ \E event \in Events : UnknownType(event)
    \/ Exhausted
    \/ Pull
    \/ Defer

Spec == Init /\ [][Next]_vars

(* ------------------- the whole run as a pure function ------------------ *)

\* lines 23-86: one iteration of the loop, on the locals of a generator
Step(st, event) ==
    LET command == Get(event, "command")
    IN  IF IsSample(event) THEN
            IF MissingFields(event)
              THEN [st EXCEPT !.status = "raised",
                      !.error = "Please verify input. Weather sample missing required fields."]
              ELSE [st EXCEPT
                      !.latest_timestamp =
                          NewLatest(st.latest_timestamp, Val(Get(event, "timestamp"))),
                      !.weather_data =
                          Record(st.weather_data, Val(Get(event, "stationName")),
                                 Val(Get(event, "temperature")))]
        ELSE IF IsControl(event) THEN
            IF command = Some("snapshot") THEN
                IF SnapshotYields(st.latest_timestamp, st.weather_data)
                  THEN [st EXCEPT !.output =
                          Append(@, SnapshotMsg(st.latest_timestamp, st.weather_data))]
                  ELSE st
            ELSE IF command = Some("reset") THEN
                [st EXCEPT
                   !.weather_data = Cleared(st.weather_data),
                   !.output = IF ResetYields(st.latest_timestamp, st.weather_data)
                                THEN Append(@, ResetMsg(st.latest_timestamp))
                                ELSE @]
            ELSE [st EXCEPT !.status = "raised",
                    !.error = "Please verify input. Unknown control command."]
        ELSE [st EXCEPT !.status = "raised",
                !.error = "Please verify input. Unknown message type."]

\* lines 22-86: the rest of the run from a state of the loop
RECURSIVE RunFrom(_, _)
RunFrom(st, events) ==
    IF events = <<>> THEN [st EXCEPT !.status = "done"]
    ELSE LET next == Step(st, Head(events))
         IN  IF next.status = "raised" THEN next ELSE RunFrom(next, Tail(events))

\* lines 5-86: list(process_events(events)) with the way the run ended
process_events(events) == RunFrom(StartState, events)

(* ------------------ samples with inf, -inf and nan -------------------- *)

\* valid samples whose temperature is any float line 32 accepts, and the two
\* control commands
ExtEvents ==
    {MkEvent(Some("sample"), Some(s), Some(t), Some(temp), Absent) :
        s \in Stations, t \in ExtTimestamps, temp \in ExtTemperatures}
    \cup {MkEvent(Some("control"), Absent, Absent, Absent, Some("snapshot")),
          MkEvent(Some("control"), Absent, Absent, Absent, Some("reset"))}

NextExt ==
    \/ \E event \in ExtEvents : Sample(event)
    \/ \E event \in ExtEvents : Snapshot(event)
    \/ \E event \in ExtEvents : Reset(event)
    \/ Exhausted
    \/ Pull

SpecExt == Init /\ [][NextExt]_vars

(* ----------------------- two generators side by side ------------------- *)

\* the events the two inputs are made of: every branch of the loop, and
\* samples of one station for both generators
TwoEvents ==
    {MkEvent(Some("sample"), Some("A"), Some(0), Some(-1), Absent),
     MkEvent(Some("sample"), Some("A"), Some(1), Some(0), Absent),
     MkEvent(Some("sample"), Some("B"), Some(0), Some(0), Absent),
     MkEvent(Some("sample"), Some("A"), Some(1), Absent, Absent),
     MkEvent(Some("control"), Absent, Absent, Absent, Some("snapshot")),
     MkEvent(Some("control"), Absent, Absent, Absent, Some("reset")),
     MkEvent(Some("control"), Absent, Absent, Absent, Some("unknown_command")),
     MkEvent(Some("unknown"), Absent, Absent, Absent, Absent)}

\* lines 18-19 (mutant: the station dict is one object shared by all calls)
SecondShared(event) ==
    /\ gen2.state.status = "running"
    /\ Len(consumed) + Len(gen2.consumed) < MaxEvents
    /\ LET next == Step([gen2.state EXCEPT !.weather_data = weather_data], event)
       IN  /\ gen2' = [state |-> next, consumed |-> Append(gen2.consumed, event)]
           /\ weather_data' = next.weather_data
    /\ UNCHANGED <<latest_timestamp, output, yieldedAt, consumed, status, error,
                   heap, entryId, control, deferrals>>

\* lines 18-86: the second generator runs one iteration of its loop, on its
\* own locals
Second(event) ==
    /\ gen2.state.status = "running"
    /\ Len(consumed) + Len(gen2.consumed) < MaxEvents
    /\ gen2' = [state |-> Step(gen2.state, event), consumed |-> Append(gen2.consumed, event)]
    /\ UNCHANGED <<weather_data, latest_timestamp, output, yieldedAt, consumed, status, error,
                   heap, entryId, control, deferrals>>

\* line 22: the input of the second generator is exhausted, it returns and
\* its next() raises StopIteration
SecondExhausted ==
    /\ gen2.state.status = "running"
    /\ gen2' = [gen2 EXCEPT !.state.status = "done"]
    /\ UNCHANGED <<weather_data, latest_timestamp, output, yieldedAt, consumed, status, error,
                   heap, entryId, control, deferrals>>

NextTwo ==
    \/ \E event \in TwoEvents : Sample(event)
    \/ \E event \in TwoEvents : SampleInvalid(event)
    \/ \E event \in TwoEvents : Snapshot(event)
    \/ \E event \in TwoEvents : Reset(event)
    \/ \E event \in TwoEvents : UnknownCommand(event)
    \/ \E event \in TwoEvents : UnknownType(event)
    \/ Exhausted
    \/ Pull
    \/ \E event \in TwoEvents : Second(event)
    \/ SecondExhausted

SpecTwo == Init /\ [][NextTwo]_vars

(* ------------------------ vocabulary of the claims --------------------- *)

Max(S) == CHOOSE x \in S : \A y \in S : y <= x

Min(S) == CHOOSE x \in S : \A y \in S : x <= y

HasValue(event, key) == key \in DOMAIN event /\ event[key] # <<>>

TypeIs(event, ty) == HasValue(event, "type") /\ event["type"] = <<ty>>

CommandIs(event, cmd) ==
    TypeIs(event, "control") /\ HasValue(event, "command") /\ event["command"] = <<cmd>>

\* a sample with station name, timestamp and temperature
ValidSample(event) ==
    /\ TypeIs(event, "sample")
    /\ HasValue(event, "stationName")
    /\ HasValue(event, "timestamp")
    /\ HasValue(event, "temperature")

\* a sample with a field missing or null
MalformedSample(event) == TypeIs(event, "sample") /\ ~ValidSample(event)

\* a control event with no known command, or an event of no known type
Unrecognized(event) ==
    \/ TypeIs(event, "control") /\ ~CommandIs(event, "snapshot") /\ ~CommandIs(event, "reset")
    \/ ~TypeIs(event, "sample") /\ ~TypeIs(event, "control")

ValidEvent(event) ==
    ValidSample(event) \/ CommandIs(event, "snapshot") \/ CommandIs(event, "reset")

\* positions of the valid samples among the first n events consumed
SamplePos(n) == {j \in 1..n : ValidSample(consumed[j])}

TsOf(j) == consumed[j]["timestamp"][1]

TempOf(j) == consumed[j]["temperature"][1]

StationOf(j) == consumed[j]["stationName"][1]

\* whether the event at position i made the generator yield
YieldedOn(i) == \E k \in 1..Len(yieldedAt) : yieldedAt[k] = i

\* the record yielded on the event at position i
RecordOn(i) == output[CHOOSE k \in 1..Len(yieldedAt) : yieldedAt[k] = i]

\* position of the last reset command before the event at position i, or 0
LastResetBefore(i) == Max({0} \cup {j \in 1..(i - 1) : CommandIs(consumed[j], "reset")})

\* positions of the valid samples between that reset and the event at position i
SinceReset(i) == {j \in SamplePos(i - 1) : j > LastResetBefore(i)}

\* positions, among those, of the samples of one station
SinceResetOf(i, s) == {j \in SinceReset(i) : StationOf(j) = s}

ValueError ==
    {"Please verify input. Weather sample missing required fields.",
     "Please verify input. Unknown control command.",
     "Please verify input. Unknown message type."}

(* ------------------------------- claims -------------------------------- *)

\* C1: the asOf of every yielded snapshot and reset record is the maximum
\* timestamp among the samples processed before the control event that
\* triggered it, whatever the order the samples arrived in.
C1_AsOfIsMaxTimestamp ==
    \A k \in 1..Len(output) :
        LET before == SamplePos(yieldedAt[k] - 1)
        IN  /\ before # {}
            /\ output[k].asOf = Max({TsOf(j) : j \in before})

\* C1 witness: a record whose asOf is larger than the timestamp of the sample
\* that arrived last before it.
C1_Witness ==
    \E k \in 1..Len(output) :
        LET before == SamplePos(yieldedAt[k] - 1)
        IN  /\ Cardinality(before) >= 2
            /\ TsOf(Max(before)) < output[k].asOf

\* C2: after a sequence of valid samples, a snapshot lists for each of its
\* stations the maximum and the minimum temperature submitted for it.
C2_ExtremaAreMaxMin ==
    \A k \in 1..Len(output) :
        LET n == yieldedAt[k] - 1
            rec == output[k]
        IN  (rec.type = "snapshot" /\ SamplePos(n) = 1..n) =>
                \A s \in DOMAIN rec.stations :
                    LET temps == {TempOf(j) : j \in {i \in 1..n : StationOf(i) = s}}
                    IN  /\ temps # {}
                        /\ rec.stations[s].high = Max(temps)
                        /\ rec.stations[s].low = Min(temps)

\* C2 witness: a snapshot after samples only, with a station whose highest
\* temperature was submitted before its lowest.
C2_Witness ==
    \E k \in 1..Len(output) :
        LET n == yieldedAt[k] - 1
            rec == output[k]
        IN  /\ rec.type = "snapshot"
            /\ SamplePos(n) = 1..n
            /\ \E s \in DOMAIN rec.stations :
                   /\ rec.stations[s].high > rec.stations[s].low
                   /\ \E i, j \in 1..n :
                          /\ i < j
                          /\ StationOf(i) = s /\ StationOf(j) = s
                          /\ TempOf(i) = rec.stations[s].high
                          /\ TempOf(j) = rec.stations[s].low

\* C3: as long as no sample has been processed, snapshot and reset commands
\* yield nothing, however many of them come and in whatever order.
C3_NoOutputBeforeFirstSample ==
    \A i \in 1..Len(consumed) : SamplePos(i) = {} => ~YieldedOn(i)

\* C3 witness: a snapshot and a reset have both been processed before any
\* sample, and nothing was yielded.
C3_Witness ==
    /\ SamplePos(Len(consumed)) = {}
    /\ \E i, j \in 1..Len(consumed) :
           CommandIs(consumed[i], "snapshot") /\ CommandIs(consumed[j], "reset")
    /\ output = <<>>

\* C4: a snapshot command that follows a reset with no sample in between
\* yields nothing, whatever came before the reset.
C4_NoSnapshotAfterReset ==
    \A i, j \in 1..Len(consumed) :
        (/\ i < j
         /\ CommandIs(consumed[i], "reset")
         /\ CommandIs(consumed[j], "snapshot")
         /\ \A m \in (i + 1)..(j - 1) : ~ValidSample(consumed[m]))
        => ~YieldedOn(j)

\* C4 witness: sample, reset, snapshot: the snapshot was processed without a
\* yield while latest_timestamp is set.
C4_Witness ==
    /\ status = "running"
    /\ Len(consumed) >= 3
    /\ CommandIs(consumed[Len(consumed)], "snapshot")
    /\ CommandIs(consumed[Len(consumed) - 1], "reset")
    /\ ValidSample(consumed[Len(consumed) - 2])
    /\ latest_timestamp # <<>>
    /\ ~YieldedOn(Len(consumed))

\* C5: a reset command leaves latest_timestamp as it is and, when a sample
\* has ever been processed, yields exactly one reset record whose asOf is
\* latest_timestamp, also when the station map is already empty.
C5_ResetKeepsCursorAndReports ==
    [][(consumed' # consumed /\ CommandIs(consumed'[Len(consumed')], "reset")) =>
          /\ latest_timestamp' = latest_timestamp
          /\ SamplePos(Len(consumed)) # {} =>
                 /\ latest_timestamp # <<>>
                 /\ output' = Append(output, [type |-> "reset", asOf |-> latest_timestamp[1]])
      ]_vars

\* C5 witness: two resets in a row, both answered by a reset record with the
\* same asOf.
C5_Witness ==
    \E i \in 1..(Len(consumed) - 1) :
        /\ CommandIs(consumed[i], "reset") /\ CommandIs(consumed[i + 1], "reset")
        /\ YieldedOn(i) /\ YieldedOn(i + 1)
        /\ RecordOn(i).type = "reset"
        /\ RecordOn(i) = RecordOn(i + 1)

\* C6: two snapshot commands in a row are answered alike: by two identical
\* snapshot records (same asOf, same stations, same high and low), or, when
\* there is nothing to report, by nothing both times.
C6_SnapshotIdempotent ==
    \A i \in 1..(Len(consumed) - 1) :
        (CommandIs(consumed[i], "snapshot") /\ CommandIs(consumed[i + 1], "snapshot")) =>
            /\ YieldedOn(i) <=> YieldedOn(i + 1)
            /\ YieldedOn(i) => RecordOn(i) = RecordOn(i + 1)

\* C6 witness: two snapshots in a row that both yielded a record.
C6_Witness ==
    \E i \in 1..(Len(consumed) - 1) :
        /\ CommandIs(consumed[i], "snapshot") /\ CommandIs(consumed[i + 1], "snapshot")
        /\ YieldedOn(i) /\ YieldedOn(i + 1)
        /\ RecordOn(i).type = "snapshot"

\* C7: a sample with station name, timestamp or temperature absent or null
\* raises ValueError, yields nothing, changes neither latest_timestamp nor
\* any station entry, and ends the run.
C7_MalformedSampleRaises ==
    [][/\ (consumed' # consumed /\ MalformedSample(consumed'[Len(consumed')])) =>
              /\ status' = "raised"
              /\ error' = "Please verify input. Weather sample missing required fields."
              /\ output' = output
              /\ latest_timestamp' = latest_timestamp
              /\ weather_data' = weather_data
       /\ status = "raised" => UNCHANGED vars
      ]_vars

\* C7 witness: the run ended on a sample that has no temperature and a
\* timestamp above latest_timestamp, for a station not in the map.
C7_Witness ==
    /\ status = "raised"
    /\ LET event == consumed[Len(consumed)]
       IN  /\ TypeIs(event, "sample")
           /\ HasValue(event, "stationName") /\ HasValue(event, "timestamp")
           /\ ~HasValue(event, "temperature")
           /\ latest_timestamp # <<>>
           /\ event["timestamp"][1] > latest_timestamp[1]
           /\ event["stationName"][1] \notin DOMAIN weather_data

\* C8: a control event with a command other than snapshot and reset (or with
\* none) and an event of a type other than sample and control (or with none)
\* raise ValueError and end the run, in every state of the aggregator.
C8_UnrecognizedRaises ==
    [][/\ (consumed' # consumed /\ Unrecognized(consumed'[Len(consumed')])) =>
              /\ status' = "raised"
              /\ error' \in ValueError
              /\ output' = output
       /\ status = "raised" => UNCHANGED vars
      ]_vars

\* C8 witness: the run ended on a control event without a command while
\* stations were recorded.
C8_Witness ==
    /\ status = "raised"
    /\ TypeIs(consumed[Len(consumed)], "control")
    /\ ~HasValue(consumed[Len(consumed)], "command")
    /\ DOMAIN weather_data # {}
    /\ error = "Please verify input. Unknown control command."

\* C9: when the event at position i is the first invalid one, the run has
\* raised there, no later event is consumed, and the records yielded are
\* exactly, in order, those of a run over the events before i alone.
C9_FailFastKeepsPrefix ==
    \A i \in 1..Len(consumed) :
        ~ValidEvent(consumed[i]) =>
            /\ i = Len(consumed)
            /\ status = "raised"
            /\ output = process_events(SubSeq(consumed, 1, i - 1)).output
            /\ \A k \in 1..Len(yieldedAt) : yieldedAt[k] < i

\* C9 witness: the run raised after having yielded a snapshot and a reset.
C9_Witness ==
    /\ status = "raised"
    /\ Len(output) = 2
    /\ output[1].type = "snapshot"
    /\ output[2].type = "reset"

\* C10: every event yields at most one record and a sample none; records
\* come in the order of the control events that triggered them; a snapshot
\* record comes from a snapshot command and a reset record from a reset.
C10_OneRecordPerControl ==
    /\ Len(yieldedAt) = Len(output)
    /\ \A k \in 1..Len(output) :
           /\ yieldedAt[k] \in 1..Len(consumed)
           /\ \A m \in 1..(k - 1) : yieldedAt[m] < yieldedAt[k]
           /\ output[k].type \in {"snapshot", "reset"}
           /\ CommandIs(consumed[yieldedAt[k]], output[k].type)

\* C10 witness: samples, a snapshot record and a reset record, with fewer
\* records than events.
C10_Witness ==
    /\ \E k, m \in 1..Len(output) : output[k].type = "snapshot" /\ output[m].type = "reset"
    /\ SamplePos(Len(consumed)) # {}
    /\ Len(output) < Len(consumed)

\* C12: every recorded station has high >= low, every station entry of every
\* yielded snapshot has high >= low, and a station without a sample since the
\* start or the last reset is in no yielded snapshot.  (Fails in SpecExt: a
\* sample with temperature nan leaves its station recorded as {-inf, +inf}.)
C12_HighAtLeastLow ==
    /\ \A s \in DOMAIN weather_data : weather_data[s].high >= weather_data[s].low
    /\ \A k \in 1..Len(output) :
           output[k].type = "snapshot" =>
               \A s \in DOMAIN output[k].stations :
                   /\ output[k].stations[s].high >= output[k].stations[s].low
                   /\ SinceResetOf(yieldedAt[k], s) # {}

\* C13: a snapshot command yields a snapshot record exactly when a valid
\* sample was processed since the last reset (or the start); the stations of
\* the record are exactly those sampled since then, and never none.  (Fails
\* in SpecExt: a station whose only temperature is inf is dropped.)
C13_SnapshotIffSampled ==
    \A i \in 1..Len(consumed) :
        CommandIs(consumed[i], "snapshot") =>
            /\ YieldedOn(i) <=> SinceReset(i) # {}
            /\ YieldedOn(i) =>
                   /\ RecordOn(i).type = "snapshot"
                   /\ DOMAIN RecordOn(i).stations = {StationOf(j) : j \in SinceReset(i)}
                   /\ DOMAIN RecordOn(i).stations # {}

\* C14: between events no entry of the station map has high at the -inf
\* default or low at the +inf default, so the filter of the snapshot drops
\* nothing, and a station with one sample has high = low = its temperature.
\* (Fails in SpecExt: after a sample with temperature inf, low is +inf.)
C14_NoSentinelEntry ==
    /\ \A s \in DOMAIN weather_data :
           /\ weather_data[s].high # NegInf
           /\ weather_data[s].low # PosInf
           /\ \A j \in SinceResetOf(Len(consumed) + 1, s) :
                  SinceResetOf(Len(consumed) + 1, s) = {j} =>
                      /\ weather_data[s].high = TempOf(j)
                      /\ weather_data[s].low = TempOf(j)
    /\ DOMAIN SnapshotStations(weather_data) = DOMAIN weather_data

\* C15: in a snapshot yielded after a reset, high and low of each station are
\* the max and min over its samples after the most recent reset only, while
\* asOf is the max timestamp over all samples ever processed.
C15_ExtremaSinceResetCursorSinceStart ==
    \A k \in 1..Len(output) :
        LET i == yieldedAt[k]
            rec == output[k]
        IN  (rec.type = "snapshot" /\ LastResetBefore(i) > 0) =>
                /\ rec.asOf = Max({TsOf(j) : j \in SamplePos(i - 1)})
                /\ \A s \in DOMAIN rec.stations :
                       LET temps == {TempOf(j) : j \in SinceResetOf(i, s)}
                       IN  /\ temps # {}
                           /\ rec.stations[s].high = Max(temps)
                           /\ rec.stations[s].low = Min(temps)

\* C15 witness: a snapshot after a reset whose asOf is the timestamp of a
\* sample from before the reset, of a station the snapshot does not list.
C15_Witness ==
    \E k \in 1..Len(output) :
        LET i == yieldedAt[k]
            rec == output[k]
        IN  /\ rec.type = "snapshot"
            /\ LastResetBefore(i) > 0
            /\ \A j \in SinceReset(i) : TsOf(j) < rec.asOf
            /\ \E j \in SamplePos(LastResetBefore(i)) :
                   /\ TsOf(j) = rec.asOf
                   /\ StationOf(j) \notin DOMAIN rec.stations

\* C16: a snapshot command changes neither the station map nor
\* latest_timestamp, and the record it yields lists, per station, the max and
\* min over all samples since the last reset, those before an earlier
\* snapshot included.
C16_SnapshotAccumulates ==
    [][(consumed' # consumed /\ CommandIs(consumed'[Len(consumed')], "snapshot")) =>
          /\ weather_data' = weather_data
          /\ latest_timestamp' = latest_timestamp
          /\ output' # output =>
                 LET rec == output'[Len(output')]
                 IN  \A s \in DOMAIN rec.stations :
                         LET temps == {TempOf(j) : j \in SinceResetOf(Len(consumed) + 1, s)}
                         IN  /\ temps # {}
                             /\ rec.stations[s].high = Max(temps)
                             /\ rec.stations[s].low = Min(temps)
      ]_vars

\* C16 witness: snapshot, a further sample, snapshot, with no reset: the
\* second record differs from the first and spans samples from before it.
C16_Witness ==
    \E k \in 1..(Len(output) - 1) :
        /\ output[k].type = "snapshot" /\ output[k + 1].type = "snapshot"
        /\ LastResetBefore(yieldedAt[k + 1]) = 0
        /\ \E s \in DOMAIN output[k].stations :
               /\ output[k + 1].stations[s] # output[k].stations[s]
               /\ \E j \in SinceResetOf(yieldedAt[k], s) :
                      TempOf(j) \in {output[k + 1].stations[s].high, output[k + 1].stations[s].low}

\* C17: latest_timestamp never decreases and, once set, is never unset again;
\* the asOf values of the successive records of a run never decrease.
C17_CursorMonotone ==
    [][/\ latest_timestamp # <<>> =>
              /\ latest_timestamp' # <<>>
              /\ latest_timestamp'[1] >= latest_timestamp[1]
       /\ \A k \in 1..(Len(output') - 1) : output'[k].asOf <= output'[k + 1].asOf
      ]_vars

\* C17 witness: a reset record followed by a record with a larger asOf: the
\* reset left latest_timestamp set and a later sample raised it.
C17_Witness ==
    \E k \in 1..(Len(output) - 1) :
        output[k].type = "reset" /\ output[k].asOf < output[k + 1].asOf

\* C11: a yielded snapshot is a copy: whatever is processed later (a sample
\* of a listed or of a new station, a reset, another snapshot), the asOf, the
\* station set and every high and low read in the record stay as yielded.
C11_SnapshotIsACopy ==
    [][\A k \in 1..Len(output) :
           output[k].type = "snapshot" =>
               /\ k <= Len(output')
               /\ Visible(output'[k], heap') = Visible(output[k], heap)
      ]_vars

\* C11 witness: after a snapshot was yielded, a station it lists got a sample
\* that changed its entry, and the record still reads as yielded.
C11_Witness ==
    \E k \in 1..Len(output) :
        /\ output[k].type = "snapshot"
        /\ \E s \in DOMAIN output[k].stations \cap DOMAIN weather_data :
               /\ LastResetBefore(Len(consumed) + 1) < yieldedAt[k]
               /\ weather_data[s] # Visible(output[k], heap).stations[s]
               /\ heap[entryId[s]] = weather_data[s]

\* C18: the generator reads one event at a time and only inside next(): when
\* a record is handed over, the events consumed are exactly those up to the
\* control event that triggered it; while the consumer holds control nothing
\* is read or changed; and however the consumer spaces its pulls, the records
\* handed over are those of a plain run over the events consumed.
C18_SequentialPullDriven ==
    [][/\ Len(consumed') <= Len(consumed) + 1
       /\ output' # output =>
              /\ Len(output') = Len(output) + 1
              /\ control' = "consumer"
              /\ yieldedAt'[Len(output')] = Len(consumed')
              /\ consumed' # consumed
       /\ control = "consumer" =>
              UNCHANGED <<consumed, output, weather_data, latest_timestamp, status, error>>
       /\ output' = process_events(consumed').output
      ]_vars

\* C18 witness: the consumer holds a second record, has put off the next
\* pull, and the generator stands at the event that triggered the record.
C18_Witness ==
    /\ control = "consumer"
    /\ status = "running"
    /\ deferrals = MaxDefer
    /\ Len(output) >= 2
    /\ yieldedAt[Len(output)] = Len(consumed)

\* C19: two generators over inputs of their own do not influence each other:
\* however their steps interleave, the records and the error of each one are
\* those of a run over its own input alone, also when both inputs name the
\* same stations.
C19_GeneratorsIndependent ==
    LET alone1 == process_events(consumed)
        alone2 == process_events(gen2.consumed)
    IN  /\ output = alone1.output
        /\ (status = "raised") <=> (alone1.status = "raised")
        /\ status = "raised" => error = alone1.error
        /\ status = "done" => alone1.status = "done" /\ error = alone1.error
        /\ gen2.state.output = alone2.output
        /\ (gen2.state.status = "raised") <=> (alone2.status = "raised")
        /\ gen2.state.status = "raised" => gen2.state.error = alone2.error
        /\ gen2.state.status = "done" =>
               alone2.status = "done" /\ gen2.state.error = alone2.error

\* C19 witness: both generators took samples of station A and each yielded a
\* snapshot of it, with different numbers, and the second one has returned.
C19_Witness ==
    /\ gen2.state.status = "done"
    /\ Len(output) >= 1
    /\ Len(gen2.state.output) >= 1
    /\ LET rec1 == output[Len(output)]
           rec2 == gen2.state.output[Len(gen2.state.output)]
       IN  /\ rec1.type = "snapshot" /\ rec2.type = "snapshot"
           /\ "A" \in DOMAIN rec1.stations \cap DOMAIN rec2.stations
           /\ rec1.stations["A"] # rec2.stations["A"]

====
